---- MODULE Spec2Model ----
(***************************************************************************)
(* termwiz/src/image.rs: texture coordinates, image cells, image payloads  *)
(* (ImageDataType), their hash, decode pipeline and footprint, and the     *)
(* process-wide id allocator of ImageData.                                 *)
(*                                                                         *)
(* The module holds four specifications over one set of variables:         *)
(*   Spec         threads creating and dropping ImageData (IMAGE_ID)       *)
(*   SpecPayload  compute_hash and ImageData::len applied to payloads      *)
(*   SpecDecode   ImageDataType::decode applied once and twice             *)
(*   SpecCell     TextureCoordinate construction, ImageCell matching       *)
(* Each specification parks the variables of the others.                   *)
(***************************************************************************)
EXTENDS Integers, Sequences, FiniteSets, TLC

----------------------------------------------------------------------------
(* Bounds of the model *)

\* longest byte buffer (EncodedFile data, Rgba8 data, one stored frame)
MaxLen == 1
\* most frames of an animation (stored or decoded)
MaxFrames == 2
\* most ImageData creations of one run
MaxImages == 3
\* largest protocol image id / placement id
MaxId == 2

\* u8 values that occur in buffers
Byte == {0, 255}
\* frame delays / durations (milliseconds)
Delay == {100, 200}
\* (width, height) pairs that occur
Dims == {<<1, 1>>, <<2, 1>>}

SeqsUpTo(S, n) == UNION {[1..k -> S] : k \in 0..n}

\* Vec<u8> values
Bytes == SeqsUpTo(Byte, MaxLen)

----------------------------------------------------------------------------
(* ImageDataType *)

EncodedFile(data) == [tag |-> "EncodedFile", data |-> data]

Rgba8(data, width, height) ==
    [tag |-> "Rgba8", data |-> data, width |-> width, height |-> height]

AnimRgba8(width, height, durations, frames) ==
    [tag |-> "AnimRgba8", width |-> width, height |-> height,
     durations |-> durations, frames |-> frames]

\* every payload value within the bounds; the type does not tie the length
\* of durations to the length of frames, nor a buffer's length to the size
ImageDataType ==
    {EncodedFile(d) : d \in Bytes}
    \cup {Rgba8(d, wh[1], wh[2]) : d \in Bytes, wh \in Dims}
    \cup {AnimRgba8(wh[1], wh[2], du, fr) :
            wh \in Dims, du \in SeqsUpTo(Delay, MaxFrames),
            fr \in SeqsUpTo(Bytes, MaxFrames)}

----------------------------------------------------------------------------
(* sha2::Sha256, as the stream it has absorbed: update appends, finalize   *)
(* is a function of the absorbed stream alone.                             *)

Sha256New == <<>>

Update(hasher, data) == hasher \o data

Finalize(hasher) == [sha256 |-> hasher]

\* for data in frames { hasher.update(data) }
RECURSIVE UpdateEach(_, _)
UpdateEach(hasher, frames) ==
    IF frames = <<>> THEN hasher
    ELSE UpdateEach(Update(hasher, Head(frames)), Tail(frames))

\* a hash that also absorbs the durations and the declared size
compute_hash_with_metadata(self) ==
    Finalize(
        CASE self.tag = "EncodedFile" -> Update(Sha256New, self.data)
          [] self.tag = "Rgba8" ->
                Update(Update(Sha256New, <<self.width, self.height>>), self.data)
          [] self.tag = "AnimRgba8" ->
                UpdateEach(Update(Sha256New, <<self.width, self.height>>
                                             \o self.durations),
                           self.frames))

compute_hash(self) ==
    Finalize(
        CASE self.tag = "EncodedFile" -> Update(Sha256New, self.data)
          [] self.tag = "Rgba8" -> Update(Sha256New, self.data)
          [] self.tag = "AnimRgba8" -> UpdateEach(Sha256New, self.frames))

----------------------------------------------------------------------------
(* State *)

VARIABLES
    IMAGE_ID,   \* static IMAGE_ID: AtomicUsize
    pc,         \* per thread: where it is inside ImageData::with_data
    arg,        \* per thread: the data argument of with_data
    id,         \* per thread: the local `id` read by fetch_add
    before,     \* per thread: the ids allocated before its creation started
    images,     \* the ImageData values alive
    created     \* history: one [id, before] per fetch_add, in order

storeVars == <<IMAGE_ID, pc, arg, id, before, images, created>>

VARIABLES
    payload,    \* the ImageDataType that compute_hash and len are applied to
    other,      \* a payload with the buffers of `payload` and other metadata
    hash,       \* payload.compute_hash()
    otherHash,  \* other.compute_hash()
    footprint,  \* the outcome of ImageData::len on `payload`
    pstage      \* "new", then "hash" or "len" ("parked" outside SpecPayload)

payloadVars == <<payload, other, hash, otherHash, footprint, pstage>>

VARIABLES
    input,      \* the ImageDataType that decode is called on
    codec,      \* what the image crate answers for the bytes of `input`
    decoded,    \* input.decode()
    redecoded,  \* input.decode().decode()
    dstage      \* "input", "decoded", "redecoded" ("parked" outside SpecDecode)

decodeVars == <<input, codec, decoded, redecoded, dstage>>

VARIABLES
    coordCall,     \* the last TextureCoordinate construction: how, and from what
    coordOutcome,  \* what that construction gave
    cell,          \* the ImageCell built last (a sequence of at most one)
    query,         \* the last (image_id, placement_id) asked of the cell
    matched        \* cell.matches_placement(query)

cellVars == <<coordCall, coordOutcome, cell, query, matched>>

vars == <<storeVars, payloadVars, decodeVars, cellVars>>

notStore == <<payloadVars, decodeVars, cellVars>>

notPayload == <<storeVars, decodeVars, cellVars>>

notDecode == <<storeVars, payloadVars, cellVars>>

notCell == <<storeVars, payloadVars, decodeVars>>

----------------------------------------------------------------------------
(* ImageData::with_data, ImageData::with_raw_data, drop *)

\* two threads create images concurrently
Threads == {"t1", "t2"}

\* payloads and raw buffers the threads of Spec create images from
SampleData == {Rgba8(<<255>>, 1, 1), AnimRgba8(1, 1, <<>>, <<>>)}

SampleBytes == {<<255>>}

IssuedIds == {created[i].id : i \in 1..Len(created)}

\* a counter that a creation does not advance
fetch_add_lost(cur, val) == cur

\* AtomicUsize::fetch_add: the new value of the counter (the old one is
\* returned). The counter stays far below usize::MAX (at most MaxImages).
fetch_add(cur, val) == cur + val

StoreInit ==
    /\ IMAGE_ID = 0
    /\ pc = [t \in Threads |-> "idle"]
    /\ arg = [t \in Threads |-> EncodedFile(<<>>)]
    /\ id = [t \in Threads |-> 0]
    /\ before = [t \in Threads |-> {}]
    /\ images = {}
    /\ created = <<>>

Started == Len(created) + Cardinality({t \in Threads : pc[t] = "fetch_add"})

\* a thread enters with_data(data)
with_data(t, data) ==
    /\ pc[t] = "idle"
    /\ Started < MaxImages
    /\ pc' = [pc EXCEPT ![t] = "fetch_add"]
    /\ arg' = [arg EXCEPT ![t] = data]
    /\ before' = [before EXCEPT ![t] = IssuedIds]
    /\ UNCHANGED <<IMAGE_ID, id, images, created>>
    /\ UNCHANGED notStore

\* Self::with_data(ImageDataType::EncodedFile(data))
with_raw_data(t, data) == with_data(t, EncodedFile(data))

\* let id = IMAGE_ID.fetch_add(1, Relaxed): one atomic read-modify-write
FetchAdd(t) ==
    /\ pc[t] = "fetch_add"
    /\ id' = [id EXCEPT ![t] = IMAGE_ID]
    /\ IMAGE_ID' = fetch_add(IMAGE_ID, 1)
    /\ created' = Append(created, [id |-> IMAGE_ID, before |-> before[t]])
    /\ pc' = [pc EXCEPT ![t] = "construct"]
    /\ UNCHANGED <<arg, before, images>>
    /\ UNCHANGED notStore

\* let hash = data.compute_hash(); Self { id, hash, data }
Construct(t) ==
    /\ pc[t] = "construct"
    /\ images' = images \cup
          {[id |-> id[t], hash |-> compute_hash(arg[t]), data |-> arg[t]]}
    /\ pc' = [pc EXCEPT ![t] = "idle"]
    /\ arg' = [arg EXCEPT ![t] = EncodedFile(<<>>)]
    /\ id' = [id EXCEPT ![t] = 0]
    /\ before' = [before EXCEPT ![t] = {}]
    /\ UNCHANGED <<IMAGE_ID, created>>
    /\ UNCHANGED notStore

\* an ImageData is dropped; nothing is returned to the allocator
Drop ==
    /\ \E img \in images : images' = images \ {img}
    /\ UNCHANGED <<IMAGE_ID, pc, arg, id, before, created>>
    /\ UNCHANGED notStore

StoreNext ==
    \/ \E t \in Threads, data \in SampleData : with_data(t, data)
    \/ \E t \in Threads, data \in SampleBytes : with_raw_data(t, data)
    \/ \E t \in Threads : FetchAdd(t)
    \/ \E t \in Threads : Construct(t)
    \/ Drop

----------------------------------------------------------------------------
(* compute_hash and ImageData::len applied to a payload *)

\* the outcome of a call: a value, or the panic that unwinds out of it
Returned(v) == [kind |-> "returned", value |-> v]

Panicked == [kind |-> "panic", value |-> 0]

NoOutcome == [kind |-> "none", value |-> 0]

NoHash == Finalize(<<"none">>)

RECURSIVE SumLen(_)
SumLen(frames) ==
    IF frames = <<>> THEN 0 ELSE Len(Head(frames)) + SumLen(Tail(frames))

\* a footprint that adds up the frames instead of multiplying by the first
len_summing_frames(data) ==
    CASE data.tag = "EncodedFile" -> Returned(Len(data.data))
      [] data.tag = "Rgba8" -> Returned(Len(data.data))
      [] data.tag = "AnimRgba8" -> Returned(SumLen(data.frames))

\* ImageData::len on an image whose payload is `data`; frames[0] of an empty
\* Vec is an index out of bounds, which panics
len(data) ==
    CASE data.tag = "EncodedFile" -> Returned(Len(data.data))
      [] data.tag = "Rgba8" -> Returned(Len(data.data))
      [] data.tag = "AnimRgba8" ->
            IF Len(data.frames) = 0 THEN Panicked
            ELSE Returned(Len(data.frames) * Len(data.frames[1]))

\* the payloads that hold the buffers of `data` under other metadata
SameBuffers(data) ==
    CASE data.tag \in {"EncodedFile", "Rgba8"} ->
            {EncodedFile(data.data)}
            \cup {Rgba8(data.data, wh[1], wh[2]) : wh \in Dims}
      [] data.tag = "AnimRgba8" ->
            {AnimRgba8(wh[1], wh[2], du, data.frames) :
                wh \in Dims, du \in SeqsUpTo(Delay, MaxFrames)}

PayloadParked ==
    /\ payload = EncodedFile(<<>>)
    /\ other = EncodedFile(<<>>)
    /\ hash = NoHash
    /\ otherHash = NoHash
    /\ footprint = NoOutcome
    /\ pstage = "parked"

PayloadInit ==
    /\ payload \in ImageDataType
    /\ other = payload
    /\ hash = NoHash
    /\ otherHash = NoHash
    /\ footprint = NoOutcome
    /\ pstage = "new"

\* the hash of the payload and of one with the same buffers
ComputeHash ==
    /\ pstage = "new"
    /\ \E o \in SameBuffers(payload) :
          /\ other' = o
          /\ otherHash' = compute_hash(o)
    /\ hash' = compute_hash(payload)
    /\ pstage' = "hash"
    /\ UNCHANGED <<payload, footprint>>
    /\ UNCHANGED notPayload

\* ImageData::len of an image that holds the payload
Len_ ==
    /\ pstage = "new"
    /\ footprint' = len(payload)
    /\ pstage' = "len"
    /\ UNCHANGED <<payload, other, hash, otherHash>>
    /\ UNCHANGED notPayload

PayloadNext == ComputeHash \/ Len_

----------------------------------------------------------------------------
(* The image crate, as its answers for one input: guess_format, the        *)
(* decoders' constructors, collect_frames and load_from_memory are         *)
(* functions of the bytes they are given.                                  *)

RGBA_CHANNELS == 4

\* Result<T, ImageError>
Ok(v) == [ok |-> TRUE, val |-> v]

Err(v) == [ok |-> FALSE, val |-> v]

\* image::Frame: a delay and an RGBA buffer of one colour
Frames ==
    [delay : Delay, width : {1, 2}, height : {1}, colour : Byte]

\* DynamicImage, as load_from_memory returns it
Images == [width : {1, 2}, height : {1}, colour : Byte]

NoImage == [width |-> 0, height |-> 0, colour |-> 0]

\* to_rgba8().into_vec(): width * height pixels of four channels
Pixels(img) ==
    [i \in 1..(img.width * img.height * RGBA_CHANNELS) |-> img.colour]

FrameResults == {Err(<<>>)} \cup {Ok(fs) : fs \in SeqsUpTo(Frames, MaxFrames)}

StillResults == {Err(NoImage)} \cup {Ok(img) : img \in Images}

Answer(format, png_decoder, is_apng, frames, still) ==
    [format |-> format, png_decoder |-> png_decoder, is_apng |-> is_apng,
     frames |-> frames, still |-> still]

\* guess_format fails
Undetected == Answer("Err", FALSE, FALSE, Err(<<>>), Err(NoImage))

\* the answers a file can get. load_from_memory of a PNG builds the same
\* PngDecoder as decode does, so it fails where PngDecoder::new fails; an
\* answer that decode never asks for is left at its default.
CodecAnswers ==
    {Undetected}
    \cup {Answer("Gif", FALSE, FALSE, fr, st) :
            fr \in FrameResults, st \in StillResults}
    \cup {Answer("Png", FALSE, FALSE, Err(<<>>), Err(NoImage))}
    \cup {Answer("Png", TRUE, TRUE, fr, st) :
            fr \in FrameResults, st \in StillResults}
    \cup {Answer("Png", TRUE, FALSE, Err(<<>>), st) : st \in StillResults}
    \cup {Answer("Jpeg", FALSE, FALSE, Err(<<>>), st) : st \in StillResults}

----------------------------------------------------------------------------
(* ImageDataType::decode, decode_frames, decode_single *)

\* the loop of decode_frames: every frame overwrites width and height
RECURSIVE decode_frames_loop(_, _, _, _, _)
decode_frames_loop(img_frames, width, height, frames, durations) ==
    IF img_frames = <<>> THEN AnimRgba8(width, height, durations, frames)
    ELSE LET frame == Head(img_frames) IN
         decode_frames_loop(Tail(img_frames), frame.width, frame.height,
                            Append(frames, Pixels(frame)),
                            Append(durations, frame.delay))

\* a decode_frames that keeps the size of the first frame
decode_frames_first_size(img_frames) ==
    LET anim == decode_frames_loop(img_frames, 0, 0, <<>>, <<>>) IN
    IF img_frames = <<>> THEN anim
    ELSE AnimRgba8(Head(img_frames).width, Head(img_frames).height,
                   anim.durations, anim.frames)

decode_frames(img_frames) == decode_frames_loop(img_frames, 0, 0, <<>>, <<>>)

\* a fallback that hands back an emptied buffer
decode_single_moved_data(data, c) ==
    IF c.still.ok
    THEN Rgba8(Pixels(c.still.val), c.still.val.width, c.still.val.height)
    ELSE EncodedFile(<<>>)

decode_single(data, c) ==
    IF c.still.ok
    THEN Rgba8(Pixels(c.still.val), c.still.val.width, c.still.val.height)
    ELSE EncodedFile(data)

\* the ImageFormat::Gif arm
decode_gif(data, c) ==
    IF c.frames.ok THEN decode_frames(c.frames.val)
    ELSE decode_single(data, c)

\* the ImageFormat::Png arm
decode_png(data, c) ==
    IF ~c.png_decoder THEN EncodedFile(data)
    ELSE IF c.is_apng
         THEN IF c.frames.ok THEN decode_frames(c.frames.val)
              ELSE EncodedFile(data)
         ELSE decode_single(data, c)

\* the Self::EncodedFile(data) arm
decode_encoded(data, c) ==
    IF c.format = "Err" THEN EncodedFile(data)
    ELSE CASE c.format = "Gif" -> decode_gif(data, c)
           [] c.format = "Png" -> decode_png(data, c)
           [] OTHER -> EncodedFile(data)

\* a decode that takes the buffer of every payload for a file
decode_any_buffer(self, c) ==
    IF self.tag = "AnimRgba8" THEN self
    ELSE decode_encoded(self.data, c)

decode(self, c) ==
    IF self.tag = "EncodedFile" THEN decode_encoded(self.data, c)
    ELSE self

\* the bytes of the file that decode was first called on
RawInput == IF input.tag = "EncodedFile" THEN input.data ELSE <<>>

DecodeParked ==
    /\ input = EncodedFile(<<>>)
    /\ codec = Undetected
    /\ decoded = EncodedFile(<<>>)
    /\ redecoded = EncodedFile(<<>>)
    /\ dstage = "parked"

DecodeInit ==
    /\ input \in ImageDataType
    /\ codec \in IF input.tag = "EncodedFile" THEN CodecAnswers ELSE {Undetected}
    /\ decoded = EncodedFile(<<>>)
    /\ redecoded = EncodedFile(<<>>)
    /\ dstage = "input"

Decode ==
    /\ dstage = "input"
    /\ decoded' = decode(input, codec)
    /\ dstage' = "decoded"
    /\ UNCHANGED <<input, codec, redecoded>>
    /\ UNCHANGED notDecode

\* decode of the result: the codec answers as before for the bytes it has
\* seen, and in any way for other bytes
DecodeAgain ==
    /\ dstage = "decoded"
    /\ IF decoded.tag = "EncodedFile" /\ decoded.data # RawInput
       THEN \E c \in CodecAnswers : redecoded' = decode(decoded, c)
       ELSE redecoded' = decode(decoded, codec)
    /\ dstage' = "redecoded"
    /\ UNCHANGED <<input, codec, decoded>>
    /\ UNCHANGED notDecode

DecodeNext == Decode \/ DecodeAgain

----------------------------------------------------------------------------

(* TextureCoordinate, ImageCell *)

\* f32 values, as their kind: a NaN, a finite value, an infinity
F32 == {"NaN", "0.5", "inf"}

is_nan(v) == v = "NaN"

\* ordered_float::NotNan::new
NotNan_new(v) == IF is_nan(v) THEN Err("FloatIsNan") ELSE Ok(v)

\* the values of type NotNan<f32>
NotNanF32 == {v \in F32 : NotNan_new(v).ok}

TextureCoordinate(x, y) == [x |-> x, y |-> y]

NoCoordinate == TextureCoordinate("0.0", "0.0")

CoordReturned(c) == [kind |-> "returned", value |-> c]

\* Result::unwrap of an Err: the panic unwinds out of the constructor
CoordPanicked == [kind |-> "panic", value |-> NoCoordinate]

\* Err(serde::de::Error::custom(..)) handed back to the caller
CoordError == [kind |-> "error", value |-> NoCoordinate]

NoCoordOutcome == [kind |-> "none", value |-> NoCoordinate]

\* TextureCoordinate::new
new(x, y) == TextureCoordinate(x, y)

\* TextureCoordinate::new_f32
new_f32(x, y) ==
    IF ~NotNan_new(x).ok THEN CoordPanicked
    ELSE IF ~NotNan_new(y).ok THEN CoordPanicked
         ELSE CoordReturned(new(NotNan_new(x).val, NotNan_new(y).val))

\* a deserialize_notnan that wraps the value without looking at it
deserialize_notnan_unchecked(value) == Ok(value)

\* deserialize_notnan, on a value that f32::deserialize has read
deserialize_notnan(value) == NotNan_new(value)

\* the derived Deserialize of TextureCoordinate: x, then y, each through
\* deserialize_notnan; the first error ends it
deserialize(x, y) ==
    IF ~deserialize_notnan(x).ok THEN CoordError
    ELSE IF ~deserialize_notnan(y).ok THEN CoordError
         ELSE CoordReturned(TextureCoordinate(deserialize_notnan(x).val,
                                              deserialize_notnan(y).val))

\* Option<u32>
None == <<>>

Some(v) == <<v>>

\* u32 protocol ids that occur
Ids == 0..MaxId

OptionIds == {None} \cup {Some(v) : v \in Ids}

\* the image every cell of SpecCell shows a slice of
SampleImage ==
    [id |-> 0, hash |-> compute_hash(Rgba8(<<255>>, 1, 1)),
     data |-> Rgba8(<<255>>, 1, 1)]

\* ImageCell::with_z_index
ImageCell_with_z_index(top_left, bottom_right, data, z_index, display_offset_x, display_offset_y, image_id, placement_id) ==
    [top_left |-> top_left, bottom_right |-> bottom_right, data |-> data,
     z_index |-> z_index, display_offset_x |-> display_offset_x,
     display_offset_y |-> display_offset_y, image_id |-> image_id,
     placement_id |-> placement_id]

\* ImageCell::new
ImageCell_new(top_left, bottom_right, data) ==
    ImageCell_with_z_index(top_left, bottom_right, data, 0, 0, 0, 0, None)

\* a match that takes an absent placement id for any placement
matches_placement_none_is_any(self, image_id, placement_id) ==
    /\ self.image_id = image_id
    /\ (placement_id = None \/ self.placement_id = placement_id)

\* ImageCell::matches_placement
matches_placement(self, image_id, placement_id) ==
    self.image_id = image_id /\ self.placement_id = placement_id

CellParked ==
    /\ coordCall = [via |-> "parked", x |-> "0.0", y |-> "0.0"]
    /\ coordOutcome = NoCoordOutcome
    /\ cell = <<>>
    /\ query = <<>>
    /\ matched = FALSE

CellInit ==
    /\ coordCall = [via |-> "none", x |-> "0.0", y |-> "0.0"]
    /\ coordOutcome = NoCoordOutcome
    /\ cell = <<>>
    /\ query = <<>>
    /\ matched = FALSE

\* TextureCoordinate::new(x, y) on two NotNan values
New ==
    /\ \E x, y \in NotNanF32 :
          /\ coordCall' = [via |-> "new", x |-> x, y |-> y]
          /\ coordOutcome' = CoordReturned(new(x, y))
    /\ UNCHANGED <<cell, query, matched>>
    /\ UNCHANGED notCell

\* TextureCoordinate::new_f32(x, y) on any two f32 values
NewF32 ==
    /\ \E x, y \in F32 :
          /\ coordCall' = [via |-> "new_f32", x |-> x, y |-> y]
          /\ coordOutcome' = new_f32(x, y)
    /\ UNCHANGED <<cell, query, matched>>
    /\ UNCHANGED notCell

\* a serialized TextureCoordinate that holds any two f32 values is read
Deserialize ==
    /\ \E x, y \in F32 :
          /\ coordCall' = [via |-> "deserialize", x |-> x, y |-> y]
          /\ coordOutcome' = deserialize(x, y)
    /\ UNCHANGED <<cell, query, matched>>
    /\ UNCHANGED notCell

\* ImageCell::new(top_left, bottom_right, data)
NewCell ==
    /\ cell' = <<ImageCell_new(new("0.0", "0.0"), new("0.5", "1.0"), SampleImage)>>
    /\ query' = <<>>
    /\ matched' = FALSE
    /\ UNCHANGED <<coordCall, coordOutcome>>
    /\ UNCHANGED notCell

\* ImageCell::with_z_index(.., image_id, placement_id)
WithZIndex ==
    /\ \E image_id \in Ids, placement_id \in OptionIds :
          cell' = <<ImageCell_with_z_index(new("0.0", "0.0"), new("0.5", "1.0"),
                                           SampleImage, -1, 0, 0,
                                           image_id, placement_id)>>
    /\ query' = <<>>
    /\ matched' = FALSE
    /\ UNCHANGED <<coordCall, coordOutcome>>
    /\ UNCHANGED notCell

\* cell.matches_placement(image_id, placement_id)
MatchesPlacement ==
    /\ cell # <<>>
    /\ \E image_id \in Ids, placement_id \in OptionIds :
          /\ query' = <<[image_id |-> image_id, placement_id |-> placement_id]>>
          /\ matched' = matches_placement(cell[1], image_id, placement_id)
    /\ UNCHANGED <<coordCall, coordOutcome, cell>>
    /\ UNCHANGED notCell

CellNext == New \/ NewF32 \/ Deserialize \/ NewCell \/ WithZIndex \/ MatchesPlacement

----------------------------------------------------------------------------

Init == StoreInit /\ PayloadParked /\ DecodeParked /\ CellParked

Next == StoreNext

Spec == Init /\ [][Next]_vars

InitPayload == StoreInit /\ PayloadInit /\ DecodeParked /\ CellParked

NextPayload == PayloadNext

SpecPayload == InitPayload /\ [][NextPayload]_vars

InitDecode == StoreInit /\ PayloadParked /\ DecodeInit /\ CellParked

NextDecode == DecodeNext

SpecDecode == InitDecode /\ [][NextDecode]_vars

InitCell == StoreInit /\ PayloadParked /\ DecodeParked /\ CellInit

NextCell == CellNext

SpecCell == InitCell /\ [][NextCell]_vars

----------------------------------------------------------------------------
(* C1: every creation gets an id no other creation got, also after drops,  *)
(* and its id is strictly greater than every id allocated before the       *)
(* creation started.                                                       *)
C1_IdsDistinctAndIncreasing ==
    /\ \A i, j \in 1..Len(created) : i # j => created[i].id # created[j].id
    /\ \A i \in 1..Len(created) : \A old \in created[i].before : created[i].id > old
    /\ \A a, b \in images : a.id = b.id => a = b

\* two threads were inside with_data at once, a third creation followed an
\* earlier one, and an image was dropped before the last id was allocated
C1_Witness ==
    /\ Len(created) = 3
    /\ created[2].before = {}
    /\ created[3].before # {}
    /\ Cardinality(images) < 2
    /\ \A t \in Threads : pc[t] = "idle"

----------------------------------------------------------------------------
\* decode has returned for an EncodedFile input
DecodedFile == dstage \in {"decoded", "redecoded"} /\ input.tag = "EncodedFile"

\* the detected format is one that holds animations: a GIF, an animated PNG
SupportsAnimation(c) ==
    c.format = "Gif" \/ (c.format = "Png" /\ c.png_decoder /\ c.is_apng)

\* what decoding the whole input as one still image gives
StillOrOriginal ==
    IF codec.still.ok
    THEN Rgba8(Pixels(codec.still.val), codec.still.val.width,
               codec.still.val.height)
    ELSE EncodedFile(input.data)

(* C2: when the format supports animation and decoding the frames fails,   *)
(* decode retries the input as one still image: Rgba8 if that succeeds,    *)
(* the EncodedFile with the original bytes only if that fails too.         *)
C2_FailedFramesRetryAsStill ==
    (DecodedFile /\ SupportsAnimation(codec) /\ ~codec.frames.ok)
        => decoded = StillOrOriginal

(* C3: an input whose format is not detected comes back as the EncodedFile *)
(* with exactly the input bytes, and every EncodedFile that decode returns *)
(* holds exactly the input bytes.                                          *)
C3_EncodedFileKeepsBytes ==
    DecodedFile =>
        /\ codec.format = "Err" => decoded = EncodedFile(input.data)
        /\ decoded.tag = "EncodedFile" => decoded.data = input.data

\* an undetected file with bytes in it came back as it was
C3_Witness ==
    /\ DecodedFile
    /\ input.data # <<>>
    /\ codec.format = "Err"
    /\ decoded = input

(* C4: when the format is detected and does not support animation, decode  *)
(* decodes one still frame: Rgba8 whenever the still decode succeeds, the  *)
(* EncodedFile with the original bytes only when it fails.                 *)
C4_StillFormatsDecodeAsStill ==
    (DecodedFile /\ codec.format # "Err" /\ ~SupportsAnimation(codec))
        => decoded = StillOrOriginal

(* C5: decode is idempotent: decoding its result gives the result again,   *)
(* and an Rgba8 or AnimRgba8 payload comes back unchanged.                 *)
C5_DecodeIdempotent ==
    /\ dstage = "redecoded" => redecoded = decoded
    /\ (dstage \in {"decoded", "redecoded"} /\ input.tag # "EncodedFile")
          => decoded = input

\* a file whose decode fell back to the original bytes, decoded again
C5_Witness ==
    /\ dstage = "redecoded"
    /\ input.tag = "EncodedFile"
    /\ codec.format = "Gif"
    /\ input.data # <<>>
    /\ decoded = input
    /\ redecoded = decoded

\* decode has decoded the frames of an animated input
DecodedAnimation ==
    DecodedFile /\ SupportsAnimation(codec) /\ codec.frames.ok

\* one frame and one duration per decoded frame, in decode order
FramesInDecodeOrder ==
    /\ decoded.tag = "AnimRgba8"
    /\ Len(decoded.frames) = Len(codec.frames.val)
    /\ Len(decoded.durations) = Len(decoded.frames)
    /\ \A i \in 1..Len(codec.frames.val) :
          /\ decoded.frames[i] = Pixels(codec.frames.val[i])
          /\ decoded.durations[i] = codec.frames.val[i].delay

----------------------------------------------------------------------------
\* the bytes of a payload: its buffer, or its frames one after the other
RECURSIVE Flatten(_)
Flatten(frames) ==
    IF frames = <<>> THEN <<>> ELSE Head(frames) \o Flatten(Tail(frames))

RawBytes(data) ==
    IF data.tag = "AnimRgba8" THEN Flatten(data.frames) ELSE data.data

(* C6: ImageData::len of an animation without frames does not fault: it    *)
(* returns an explicit empty-animation error, and no call of len ends in a *)
(* panic.                                                                  *)
C6_LenOfEmptyAnimationIsAnError ==
    pstage = "len" =>
        /\ footprint.kind # "panic"
        /\ (payload.tag = "AnimRgba8" /\ payload.frames = <<>>)
              => footprint.kind = "error"

(* C8: the hash is the digest of the payload's bytes alone: of the buffer  *)
(* of an EncodedFile or Rgba8, of the frames in stored order of an         *)
(* AnimRgba8; payloads with the same frames and other durations or size    *)
(* hash equal, and so do any payloads with equal bytes.                    *)
C8_HashOfRawBytesOnly ==
    pstage = "hash" =>
        /\ hash = Finalize(RawBytes(payload))
        /\ RawBytes(other) = RawBytes(payload) => otherHash = hash

\* two animations with the same two frames, other durations and another size
C8_Witness ==
    /\ pstage = "hash"
    /\ payload.tag = "AnimRgba8"
    /\ Len(payload.frames) = 2
    /\ payload.frames[1] # payload.frames[2]
    /\ other.durations # payload.durations
    /\ other.width # payload.width
    /\ otherHash = hash

(* C10: ImageData::len is the buffer length of an EncodedFile or Rgba8, and *)
(* for an AnimRgba8 with a frame it is the number of frames times the      *)
(* length of the first frame, whatever the lengths of the other frames.    *)
C10_LenIsFramesTimesFirst ==
    pstage = "len" =>
        /\ payload.tag \in {"EncodedFile", "Rgba8"}
              => footprint = Returned(Len(payload.data))
        /\ (payload.tag = "AnimRgba8" /\ payload.frames # <<>>)
              => footprint = Returned(Len(payload.frames) * Len(Head(payload.frames)))

\* frames of different lengths: the footprint is not the bytes held
C10_Witness ==
    /\ pstage = "len"
    /\ payload.tag = "AnimRgba8"
    /\ Len(payload.frames) = 2
    /\ Len(payload.frames[1]) # Len(payload.frames[2])
    /\ footprint.kind = "returned"
    /\ footprint.value # SumLen(payload.frames)

----------------------------------------------------------------------------
\* a construction from (x, y) has been attempted and a component is NaN
NanGiven == is_nan(coordCall.x) \/ is_nan(coordCall.y)

Attempted == coordCall.via \in {"new", "new_f32", "deserialize"}

\* no TextureCoordinate holds a NaN, and every pair without one is built
NoNanBuilt ==
    /\ coordOutcome.kind = "returned"
          => ~is_nan(coordOutcome.value.x) /\ ~is_nan(coordOutcome.value.y)
    /\ (Attempted /\ ~NanGiven)
          => coordOutcome = CoordReturned(TextureCoordinate(coordCall.x, coordCall.y))

SamePlacement(a, b) ==
    \/ Len(a) = 0 /\ Len(b) = 0
    \/ Len(a) = 1 /\ Len(b) = 1 /\ a[1] = b[1]

(* C9: matches_placement(image_id, placement_id) is true exactly when the  *)
(* cell's image_id equals image_id and its placement_id equals             *)
(* placement_id, an absent placement id matching an absent one only.       *)
C9_MatchesExactly ==
    query # <<>> =>
        (matched <=> (/\ cell[1].image_id = query[1].image_id
                      /\ SamePlacement(cell[1].placement_id,
                                        query[1].placement_id)))

\* a cell placed with an id is asked for the same image and no placement
C9_Witness ==
    /\ query # <<>>
    /\ cell[1].placement_id # None
    /\ query[1].placement_id = None
    /\ cell[1].image_id = query[1].image_id
    /\ ~matched

====
